---- MODULE Spec2Model ----
(***************************************************************************)
(* A model of lib/data.js: the structural copies clone and duplicate, the  *)
(* dot-path accessors getByPath, setByPath and deleteByPath, and           *)
(* mergeObjects.                                                           *)
(*                                                                         *)
(* Values are the data model's: scalars, null, and references to           *)
(* containers held in a heap, so that instance identity, sharing and       *)
(* cycles are part of the state.  Property keys are ordinary names: no own *)
(* key shadows a member inherited from Object.prototype, and a scalar has  *)
(* no property of its own.                                                 *)
(***************************************************************************)
EXTENDS Integers, Sequences, FiniteSets, TLC

(* ------------------------------ bounds -------------------------------- *)

\* Containers of the input of clone and duplicate.
NumOrig == 3
\* Fields of one input container.
MaxFields == 2
\* Frames of the call stack: deeper recursion ends in a RangeError.
MaxDepth == 5
\* Successive duplicate calls on the same input.
MaxDups == 2
\* Mappings of the heap the accessors start from.
NumPathObjs == 2
\* Characters of a dot-path.
MaxPathChars == 3
\* Elements of a sequence the accessors start from.
MaxElems == 1
\* Successive accessor calls.
MaxCalls == 2
\* Mappings handed to mergeObjects.
MaxObjs == 2
\* The numbers 1..MaxNum are the fields of these mappings.
MaxNum == 4

(* ------------------------------ values -------------------------------- *)

Undefined == [t |-> "undefined", x |-> 0]
Null == [t |-> "null", x |-> 0]
Num(n) == [t |-> "number", x |-> n]
Ref(a) == [t |-> "ref", x |-> a]

IsRef(v) == v.t = "ref"

\* typeof: a container and null are both 'object'.
TypeOf(v) == IF v.t \in {"ref", "null"} THEN "object" ELSE v.t

IndexKeys == <<"0", "1", "2", "3", "4", "5">>
NameKeys == <<"a", "b", "c", "d", "e", "f">>

\* range(0, size - 1) as property keys.
range(size) == [i \in 1..size |-> IndexKeys[i]]

\* new Array(size): the length is set and every index is a hole.
NewArray(size) ==
  [kind |-> "Array", ctor |-> "Array", length |-> size, keys |-> <<>>, vals |-> <<>>]

\* {} , Object.create(null) and new C(...) for a class C that sets no own field.
NewObject(ctor) ==
  [kind |-> "Object", ctor |-> ctor, length |-> 0, keys |-> <<>>, vals |-> <<>>]

\* obj[prop] as a read.
GetProp(c, k) == IF k \in DOMAIN c.vals THEN c.vals[k] ELSE Undefined

IndexOf(k) == CHOOSE i \in 1..Len(IndexKeys) : IndexKeys[i] = k

\* obj[prop] = v.
SetProp(c, k, v) ==
  [kind |-> c.kind,
   ctor |-> c.ctor,
   length |-> IF c.kind = "Array" /\ k \in {IndexKeys[i] : i \in 1..Len(IndexKeys)}
                   /\ IndexOf(k) > c.length
              THEN IndexOf(k) ELSE c.length,
   keys |-> IF k \in DOMAIN c.vals THEN c.keys ELSE Append(c.keys, k),
   vals |-> [x \in DOMAIN c.vals \cup {k} |-> IF x = k THEN v ELSE c.vals[x]]]

\* Object.keys(obj).
ObjectKeys(c) == c.keys

(* ------------------------------- state -------------------------------- *)

VARIABLES
  heap,     \* the containers, by address
  arg,      \* the value handed to clone or duplicate
  pc,       \* "idle", "run", "done" or "overflow"
  stack,    \* the frames of cloneFields / duplicateFields in progress
  refs,     \* duplicate's references map: original address -> copy address
  results,  \* the values returned so far
  srcOf,    \* history: for each copy made, the container it was made for
  dataPath, \* the dot-path handed to the accessors, as its characters
  calls     \* history: the calls of the accessors and of mergeObjects

vars == <<heap, arg, pc, stack, refs, results, srcOf, dataPath, calls>>

(* ------------------------- the heap as a graph ------------------------ *)

\* The containers a container's fields refer to.
Succ(h, a) == {h[a].vals[k].x : k \in {j \in DOMAIN h[a].vals : IsRef(h[a].vals[j])}}

RECURSIVE ReachFrom(_, _)
ReachFrom(h, S) ==
  LET T == S \cup UNION {Succ(h, a) : a \in S}
  IN IF T = S THEN S ELSE ReachFrom(h, T)

\* The container instances reachable from a value.
Reach(h, v) == IF IsRef(v) THEN ReachFrom(h, {v.x}) ELSE {}

\* A container is on a cycle when it is reachable from one of its own fields.
OnCycle(h, a) == a \in ReachFrom(h, Succ(h, a))

Cyclic(h, v) == \E a \in Reach(h, v) : OnCycle(h, a)

(* ------------------------------- inputs ------------------------------- *)

Scalars == {Num(1)}

InputVals(n) == Scalars \cup {Null} \cup {Ref(a) : a \in 1..n}

MkArray(vs) ==
  [kind |-> "Array", ctor |-> "Array", length |-> Len(vs), keys |-> range(Len(vs)),
   vals |-> [k \in {IndexKeys[i] : i \in 1..Len(vs)} |-> vs[IndexOf(k)]]]

MkObject(vs) ==
  [kind |-> "Object", ctor |-> "Object", length |-> 0,
   keys |-> [i \in 1..Len(vs) |-> NameKeys[i]],
   vals |-> [k \in {NameKeys[i] : i \in 1..Len(vs)} |->
               vs[CHOOSE i \in 1..Len(vs) : NameKeys[i] = k]]]

FieldSeqs(n) == UNION {[1..f -> InputVals(n)] : f \in 0..MaxFields}

InputContainers(n) ==
  {MkArray(vs) : vs \in FieldSeqs(n)} \cup {MkObject(vs) : vs \in FieldSeqs(n)}

\* The inputs: a scalar or null, or the container at address 1 of a heap whose
\* containers are all reachable from it.
InitCopy ==
  /\ heap \in UNION {[1..n -> InputContainers(n)] : n \in 0..NumOrig}
  /\ arg \in IF heap = <<>> THEN Scalars \cup {Null} ELSE {Ref(1)}
  /\ Reach(heap, arg) = DOMAIN heap
  /\ pc = "idle"
  /\ stack = <<>>
  /\ refs = <<>>
  /\ results = <<>>
  /\ srcOf = <<>>
  /\ dataPath = <<>>
  /\ calls = <<>>

(* ------------------------- clone and duplicate ------------------------ *)

\* Mutant of FieldNames: the last index of an array is left out.
FieldNamesShort(c) == IF c.kind = "Array" THEN range(c.length - 1) ELSE ObjectKeys(c)

\* The field names cloneArray / cloneObject (duplicateArray / duplicateObject)
\* hand to cloneFields (duplicateFields).
FieldNames(c) == IF c.kind = "Array" THEN range(c.length) ELSE ObjectKeys(c)

Frame(src, dst, names) == [src |-> src, dst |-> dst, names |-> names, i |-> 1]

Top == stack[Len(stack)]

Advance(s) == [s EXCEPT ![Len(s)].i = @ + 1]

\* Mutant of ReturnsVal: no function is ever applied.
ReturnsValAlways(val) == TRUE

\* applyArrObj's test: val is returned as it is, no function is applied.
ReturnsVal(val) == TypeOf(val) # "object" \/ val = Null

\* History: copy c was made for container a.
Made(m, c, a) == [x \in DOMAIN m \cup {c} |-> IF x = c THEN a ELSE m[x]]

\* const array = new Array(size) / const object = {}.
CloneNew(c) == IF c.kind = "Array" THEN NewArray(c.length) ELSE NewObject("Object")

\* clone(obj): a scalar or null is returned, a container is entered.
CloneCall ==
  /\ pc = "idle"
  /\ IF TypeOf(arg) # "object" \/ arg = Null
     THEN /\ results' = Append(results, arg)
          /\ pc' = "done"
          /\ UNCHANGED <<heap, stack, srcOf>>
     ELSE /\ heap' = Append(heap, CloneNew(heap[arg.x]))
          /\ srcOf' = Made(srcOf, Len(heap) + 1, arg.x)
          /\ stack' = <<Frame(arg.x, Len(heap) + 1, FieldNames(heap[arg.x]))>>
          /\ pc' = "run"
          /\ UNCHANGED results
  /\ UNCHANGED <<arg, refs, dataPath, calls>>

\* One round of cloneFields' loop: a scalar or null is assigned, a container
\* is entered by cloneArray / cloneObject.
CloneField ==
  /\ pc = "run"
  /\ Top.i <= Len(Top.names)
  /\ LET name == Top.names[Top.i]
         val == GetProp(heap[Top.src], name)
     IN IF ReturnsVal(val)
        THEN /\ heap' = [heap EXCEPT ![Top.dst] = SetProp(@, name, val)]
             /\ stack' = Advance(stack)
             /\ UNCHANGED <<pc, srcOf>>
        ELSE IF Len(stack) >= MaxDepth
        THEN /\ pc' = "overflow"
             /\ UNCHANGED <<heap, stack, srcOf>>
        ELSE /\ heap' = Append(heap, CloneNew(heap[val.x]))
             /\ srcOf' = Made(srcOf, Len(heap) + 1, val.x)
             /\ stack' = Append(stack, Frame(val.x, Len(heap) + 1, FieldNames(heap[val.x])))
             /\ pc' = pc
  /\ UNCHANGED <<arg, refs, results, dataPath, calls>>

\* cloneFields is through: cloneArray / cloneObject returns the copy, which
\* the caller's loop assigns, or which clone returns.
CloneReturn ==
  /\ pc = "run"
  /\ Top.i > Len(Top.names)
  /\ IF Len(stack) = 1
     THEN /\ results' = Append(results, Ref(Top.dst))
          /\ pc' = "done"
          /\ stack' = <<>>
          /\ UNCHANGED heap
     ELSE LET up == stack[Len(stack) - 1]
          IN /\ heap' = [heap EXCEPT ![up.dst] = SetProp(@, up.names[up.i], Ref(Top.dst))]
             /\ stack' = Advance(SubSeq(stack, 1, Len(stack) - 1))
             /\ UNCHANGED <<pc, results>>
  /\ UNCHANGED <<arg, refs, srcOf, dataPath, calls>>

NextClone == CloneCall \/ CloneField \/ CloneReturn

SpecClone == InitCopy /\ [][NextClone]_vars

\* Mutant of NewMap: the map of the previous call is used again.
NewMapStale == refs

\* new Map().
NewMap == <<>>

\* Mutant of ReferencesHas: the map is never looked up.
ReferencesHasNever(r, val) == FALSE

\* references.has(val).
ReferencesHas(r, val) == IsRef(val) /\ val.x \in DOMAIN r

\* Mutant of ReferencesSet: the copy is not entered into the map.
ReferencesSetDropped(r, k, v) == r

\* references.set(key, value).
ReferencesSet(r, k, v) == [a \in DOMAIN r \cup {k} |-> IF a = k THEN v ELSE r[a]]

\* The empty copy duplicateArray / duplicateObject makes.
DupNew(c) ==
  IF c.kind = "Array" THEN NewArray(c.length)
  ELSE IF c.ctor = "" THEN NewObject("")
  ELSE IF c.ctor # "Object" THEN NewObject(c.ctor)
  ELSE NewObject("Object")

\* duplicate(obj): a scalar or null is returned; for a container a new Map is
\* made and duplicateArray / duplicateObject enters it.
DupCall ==
  /\ pc \in {"idle", "done"}
  /\ Len(results) < MaxDups
  /\ IF TypeOf(arg) # "object" \/ arg = Null
     THEN /\ results' = Append(results, arg)
          /\ pc' = "done"
          /\ UNCHANGED <<heap, stack, refs, srcOf>>
     ELSE /\ heap' = Append(heap, DupNew(heap[arg.x]))
          /\ srcOf' = Made(srcOf, Len(heap) + 1, arg.x)
          /\ refs' = ReferencesSet(NewMap, arg.x, Len(heap) + 1)
          /\ stack' = <<Frame(arg.x, Len(heap) + 1, FieldNames(heap[arg.x]))>>
          /\ pc' = "run"
          /\ UNCHANGED results
  /\ UNCHANGED <<arg, dataPath, calls>>

\* One round of duplicateFields' loop.
DupField ==
  /\ pc = "run"
  /\ Top.i <= Len(Top.names)
  /\ LET name == Top.names[Top.i]
         val == GetProp(heap[Top.src], name)
     IN IF ReferencesHas(refs, val)
        THEN /\ heap' = [heap EXCEPT ![Top.dst] = SetProp(@, name, Ref(refs[val.x]))]
             /\ stack' = Advance(stack)
             /\ UNCHANGED <<pc, refs, srcOf>>
        ELSE IF ReturnsVal(val)
        THEN /\ heap' = [heap EXCEPT ![Top.dst] = SetProp(@, name, val)]
             /\ stack' = Advance(stack)
             /\ UNCHANGED <<pc, refs, srcOf>>
        ELSE IF Len(stack) >= MaxDepth
        THEN /\ pc' = "overflow"
             /\ UNCHANGED <<heap, stack, refs, srcOf>>
        ELSE /\ heap' = Append(heap, DupNew(heap[val.x]))
             /\ srcOf' = Made(srcOf, Len(heap) + 1, val.x)
             /\ refs' = ReferencesSet(refs, val.x, Len(heap) + 1)
             /\ stack' = Append(stack, Frame(val.x, Len(heap) + 1, FieldNames(heap[val.x])))
             /\ pc' = pc
  /\ UNCHANGED <<arg, results, dataPath, calls>>

\* duplicateFields is through: duplicateArray / duplicateObject returns the
\* copy, which the caller's loop assigns, or which duplicate returns.
DupReturn ==
  /\ pc = "run"
  /\ Top.i > Len(Top.names)
  /\ IF Len(stack) = 1
     THEN /\ results' = Append(results, Ref(Top.dst))
          /\ pc' = "done"
          /\ stack' = <<>>
          /\ UNCHANGED heap
     ELSE LET up == stack[Len(stack) - 1]
          IN /\ heap' = [heap EXCEPT ![up.dst] = SetProp(@, up.names[up.i], Ref(Top.dst))]
             /\ stack' = Advance(SubSeq(stack, 1, Len(stack) - 1))
             /\ UNCHANGED <<pc, results>>
  /\ UNCHANGED <<arg, refs, srcOf, dataPath, calls>>

NextDup == DupCall \/ DupField \/ DupReturn

SpecDup == InitCopy /\ [][NextDup]_vars

(* ------------------------- the dot-path accessors --------------------- *)

\* The characters of a dot-path.
PathChars == {"a", "b", "0", "."}

\* The dot-paths: the strings of at most MaxPathChars characters.
DataPaths == UNION {[1..n -> PathChars] : n \in 0..MaxPathChars}

\* dataPath.split('.'): the segments between the dots; a string with no dot,
\* the empty one too, is one segment.
RECURSIVE SplitFrom(_, _, _)
SplitFrom(s, i, seg) ==
  IF i > Len(s) THEN <<seg>>
  ELSE IF s[i] = "." THEN <<seg>> \o SplitFrom(s, i + 1, "")
  ELSE SplitFrom(s, i + 1, seg \o s[i])

split(s) == SplitFrom(s, 1, "")

True == [t |-> "boolean", x |-> 1]
False == [t |-> "boolean", x |-> 0]

\* How a call ends: with a value, or with a TypeError thrown.
Returned(v, h) == [threw |-> FALSE, ret |-> v, heap |-> h]
Thrown(h) == [threw |-> TRUE, ret |-> Undefined, heap |-> h]

\* Mutant of Missing: null is not taken for missing.
MissingUndefinedOnly(v) == v = Undefined

\* next === undefined || next === null.
Missing(v) == v = Undefined \/ v = Null

\* obj[prop] of a value that is neither null nor undefined: a container's
\* own field, and undefined on a scalar.
Index(h, obj, prop) == IF IsRef(obj) THEN GetProp(h[obj.x], prop) ELSE Undefined

\* obj.hasOwnProperty(prop).
HasOwnProperty(h, obj, prop) == IsRef(obj) /\ prop \in DOMAIN h[obj.x].vals

\* Mutant of DeleteProp: the property is set to undefined, not removed.
DeletePropAssigns(c, k) == SetProp(c, k, Undefined)

\* delete obj[prop].
DeleteProp(c, k) ==
  LET Keep(x) == x # k
  IN [kind |-> c.kind, ctor |-> c.ctor, length |-> c.length,
      keys |-> SelectSeq(c.keys, Keep),
      vals |-> [x \in DOMAIN c.vals \ {k} |-> c.vals[x]]]

\* getByPath's loop from its i-th round on.
RECURSIVE GetLoop(_, _, _, _)
GetLoop(h, path, obj, i) ==
  IF i > Len(path) THEN Returned(obj, h)
  ELSE IF obj = Null \/ obj = Undefined THEN Thrown(h)
  ELSE LET next == Index(h, obj, path[i])
       IN IF Missing(next) THEN Returned(next, h)
          ELSE GetLoop(h, path, next, i + 1)

getByPath(h, data, dotPath) == GetLoop(h, split(dotPath), data, 1)

\* setByPath's loop from its i-th round on.
RECURSIVE SetLoop(_, _, _, _, _)
SetLoop(h, path, value, obj, i) ==
  IF TypeOf(obj) # "object" THEN Returned(False, h)
  ELSE IF obj = Null THEN Thrown(h)
  ELSE IF i = Len(path)
  THEN Returned(True, [h EXCEPT ![obj.x] = SetProp(@, path[i], value)])
  ELSE LET next == Index(h, obj, path[i])
           new == Len(h) + 1
       IN IF Missing(next)
          THEN SetLoop(Append([h EXCEPT ![obj.x] = SetProp(@, path[i], Ref(new))],
                              NewObject("Object")),
                       path, value, Ref(new), i + 1)
          ELSE SetLoop(h, path, value, next, i + 1)

setByPath(h, data, dotPath, value) == SetLoop(h, split(dotPath), value, data, 1)

\* deleteByPath's loop from its i-th round on.
RECURSIVE DeleteLoop(_, _, _, _)
DeleteLoop(h, path, obj, i) ==
  IF i > Len(path) THEN Returned(False, h)
  ELSE IF obj = Null \/ obj = Undefined THEN Thrown(h)
  ELSE LET next == Index(h, obj, path[i])
       IN IF i = Len(path)
          THEN IF HasOwnProperty(h, obj, path[i])
               THEN Returned(True, [h EXCEPT ![obj.x] = DeleteProp(@, path[i])])
               ELSE DeleteLoop(h, path, obj, i + 1)
          ELSE IF Missing(next) THEN Returned(False, h)
          ELSE DeleteLoop(h, path, next, i + 1)

deleteByPath(h, data, dotPath) == DeleteLoop(h, split(dotPath), data, 1)

\* The keys of the mappings the accessors start from.
PathKeys == {"a", "b"}

PathVals(n) == {Undefined, Null, Num(1)} \cup {Ref(a) : a \in 1..n}

\* The plain mapping with the fields f.
MkMapping(f) ==
  LET Own(k) == k \in DOMAIN f
  IN [kind |-> "Object", ctor |-> "Object", length |-> 0,
      keys |-> SelectSeq(NameKeys, Own), vals |-> f]

PathContainers(n) ==
  {MkMapping(f) : f \in UNION {[K -> PathVals(n)] : K \in SUBSET PathKeys}}
    \cup {MkArray(vs) : vs \in UNION {[1..f -> PathVals(n)] : f \in 0..MaxElems}}

\* The inputs: data is a scalar, null, undefined, or the container at address
\* 1 of a heap whose containers are all reachable from it; dataPath is any
\* dot-path.
InitPath ==
  /\ heap \in UNION {[1..n -> PathContainers(n)] : n \in 0..NumPathObjs}
  /\ arg \in IF heap = <<>> THEN {Undefined, Null, Num(1)} ELSE {Ref(1)}
  /\ Reach(heap, arg) = DOMAIN heap
  /\ dataPath \in DataPaths
  /\ calls = <<>>
  /\ pc = "idle"
  /\ stack = <<>>
  /\ refs = <<>>
  /\ results = <<>>
  /\ srcOf = <<>>

\* The values handed to setByPath.
SetVals == {Num(5), Null, arg}

Call(op, value, r) ==
  [op |-> op, dataPath |-> dataPath, value |-> value, pre |-> heap,
   threw |-> r.threw, ret |-> r.ret]

GetCall ==
  /\ Len(calls) < MaxCalls
  /\ LET r == getByPath(heap, arg, dataPath)
     IN /\ heap' = r.heap
        /\ calls' = Append(calls, Call("getByPath", Undefined, r))
  /\ UNCHANGED <<arg, dataPath, pc, stack, refs, results, srcOf>>

SetCall ==
  /\ Len(calls) < MaxCalls
  /\ \E value \in SetVals :
       LET r == setByPath(heap, arg, dataPath, value)
       IN /\ heap' = r.heap
          /\ calls' = Append(calls, Call("setByPath", value, r))
  /\ UNCHANGED <<arg, dataPath, pc, stack, refs, results, srcOf>>

DeleteCall ==
  /\ Len(calls) < MaxCalls
  /\ LET r == deleteByPath(heap, arg, dataPath)
     IN /\ heap' = r.heap
        /\ calls' = Append(calls, Call("deleteByPath", Undefined, r))
  /\ UNCHANGED <<arg, dataPath, pc, stack, refs, results, srcOf>>

NextPath == GetCall \/ SetCall \/ DeleteCall

SpecPath == InitPath /\ [][NextPath]_vars

(* ---------------------- properties of the copies ---------------------- *)

\* Deep equality that takes a pair of containers it is already comparing as
\* equal, so that it ends on cycles.
RECURSIVE DeepEq(_, _, _, _)
DeepEq(h, v, w, seen) ==
  IF ~IsRef(v) \/ ~IsRef(w) THEN v = w
  ELSE IF <<v.x, w.x>> \in seen THEN TRUE
  ELSE /\ h[v.x].kind = h[w.x].kind
       /\ h[v.x].length = h[w.x].length
       /\ DOMAIN h[v.x].vals = DOMAIN h[w.x].vals
       /\ \A k \in DOMAIN h[v.x].vals :
            DeepEq(h, h[v.x].vals[k], h[w.x].vals[k], seen \cup {<<v.x, w.x>>})

\* The fields of the containers in S that hold a container.
RefFields(h, S) ==
  UNION {{<<a, k>> : k \in {j \in DOMAIN h[a].vals : IsRef(h[a].vals[j])}} : a \in S}

\* f sends each container reachable from v to the container at the same place
\* under w: same category, same keys, equal scalars, corresponding containers.
Corresponds(h, f, v, w) ==
  /\ f[v.x] = w.x
  /\ \A a \in DOMAIN f :
       /\ h[a].kind = h[f[a]].kind
       /\ h[a].length = h[f[a]].length
       /\ DOMAIN h[a].vals = DOMAIN h[f[a]].vals
       /\ \A k \in DOMAIN h[a].vals :
            h[f[a]].vals[k] = IF IsRef(h[a].vals[k]) THEN Ref(f[h[a].vals[k].x])
                              ELSE h[a].vals[k]

\* Two fields of v hold the same instance exactly when the corresponding two
\* fields of w do.
SharingPreserved(h, v, w) ==
  LET fields == RefFields(h, Reach(h, v))
  IN \E f \in [Reach(h, v) -> Reach(h, w)] :
       /\ Corresponds(h, f, v, w)
       /\ \A p, q \in fields :
            (h[p[1]].vals[p[2]] = h[q[1]].vals[q[2]])
              <=> (h[f[p[1]]].vals[p[2]] = h[f[q[1]]].vals[q[2]])

\* A container that two different fields hold.
Shared(h, v) ==
  \E p, q \in RefFields(h, Reach(h, v)) : p # q /\ h[p[1]].vals[p[2]] = h[q[1]].vals[q[2]]

\* C1: every value duplicate returns is deep-equal to its argument under the
\* cycle-aware comparison, has no container instance in common with it, and
\* has two fields on the same instance exactly where the argument has.
C1_DuplicateFaithful ==
  pc = "done" => \A i \in 1..Len(results) :
    IF IsRef(arg)
    THEN /\ IsRef(results[i])
         /\ DeepEq(heap, arg, results[i], {})
         /\ Reach(heap, results[i]) \cap Reach(heap, arg) = {}
         /\ SharingPreserved(heap, arg, results[i])
    ELSE results[i] = arg

\* C1's case: duplicate has returned the copy of an input that has a cycle and
\* a container that two fields hold.
C1_Witness ==
  /\ pc = "done"
  /\ Len(results) = 1
  /\ Cyclic(heap, arg)
  /\ Shared(heap, arg)
  /\ Cardinality(Reach(heap, arg)) = NumOrig

\* A bound on the steps duplicate has left: at most MaxFields + 2 for each
\* input container not yet in the map (its call, its fields, its return), and
\* the fields left and the return of each frame.  The input containers are
\* those of the heap that are no copies.
RECURSIVE FrameWork(_, _)
FrameWork(s, i) ==
  IF i = 0 THEN 0
  ELSE (Len(s[i].names) - s[i].i + 1) + 1 + FrameWork(s, i - 1)

DupWork ==
  (Len(heap) - Cardinality(DOMAIN srcOf) - Cardinality(DOMAIN refs)) * (MaxFields + 2)
    + FrameWork(stack, Len(stack))

\* The fields of the copies that stand for a field holding an ancestor.
\* c is a copy, k a key, and the original's field k holds a container from
\* which the original is reachable.
BackFields(r) ==
  {p \in RefFields(heap, {srcOf[c] : c \in Reach(heap, r)}) :
     p[1] \in ReachFrom(heap, {heap[p[1]].vals[p[2]].x})}

\* In the result r, each field standing for a field that holds an ancestor
\* holds the one copy made for that ancestor in this call, from which the
\* field's own container is reachable.
RingClosed(r) ==
  \A c \in Reach(heap, r) : \A p \in BackFields(r) :
    srcOf[c] = p[1] =>
      LET b == heap[p[1]].vals[p[2]].x
          w == GetProp(heap[c], p[2])
      IN /\ IsRef(w)
         /\ w.x \in DOMAIN srcOf
         /\ srcOf[w.x] = b
         /\ c \in ReachFrom(heap, {w.x})
         /\ Cardinality({d \in Reach(heap, r) : srcOf[d] = b}) = 1

\* C2: duplicate ends on every input, so on one with a cycle: every step
\* lessens the work left and the recursion never runs away; and in the
\* result the field standing for a field that holds an ancestor holds the
\* one new copy of the ancestor.
C2_CyclicDuplicateEnds ==
  /\ [](pc # "overflow")
  /\ [](pc = "run" => ENABLED NextDup)
  /\ [](pc = "done" =>
          \A i \in 1..Len(results) :
            /\ Reach(heap, results[i]) \subseteq DOMAIN srcOf
            /\ RingClosed(results[i]))
  /\ [][pc = "run" => DupWork' < DupWork /\ DupWork' >= 0]_vars

\* C2's case: duplicate has returned from an input where a container holds
\* itself and another holds an ancestor two levels up.
C2_Witness ==
  /\ pc = "done"
  /\ \E a \in Reach(heap, arg) : a \in Succ(heap, a)
  /\ \E a \in Reach(heap, arg) : a \notin Succ(heap, a) /\ OnCycle(heap, a)

\* C9: while duplicate traverses, every container whose fields are being read
\* is in the map with the copy being filled; an entry of the map is never
\* overwritten; when duplicate returns, the map holds exactly the containers
\* reachable from the input; and the copies two calls return have no
\* container in common.
C9_IdentityMap ==
  /\ [](pc = "run" =>
          \A i \in 1..Len(stack) :
            stack[i].src \in DOMAIN refs /\ refs[stack[i].src] = stack[i].dst)
  /\ [][pc = "run" => \A a \in DOMAIN refs : a \in DOMAIN refs' /\ refs'[a] = refs[a]]_vars
  /\ [](pc = "run" =>
          \A a \in DOMAIN refs :
            Cardinality({c \in DOMAIN srcOf : srcOf[c] = a}) = Len(results) + 1)
  /\ [](pc = "done" /\ IsRef(arg) => DOMAIN refs = Reach(heap, arg))
  /\ [](\A i, j \in 1..Len(results) :
          i # j => Reach(heap, results[i]) \cap Reach(heap, results[j]) = {})

\* C9's case: a second duplicate of an input with a shared container and a
\* cycle has returned.
C9_Witness ==
  /\ pc = "done"
  /\ Len(results) = 2
  /\ Shared(heap, arg)
  /\ Cyclic(heap, arg)

\* The steps clone has left for the fields of a from the i-th on, on an
\* acyclic heap: one for a scalar, and for a container the call, its own
\* fields and the return.
RECURSIVE RestWork(_, _, _)
RestWork(h, a, i) ==
  LET names == FieldNames(h[a])
      v == GetProp(h[a], names[i])
  IN IF i > Len(names) THEN 0
     ELSE (IF IsRef(v) THEN 2 + RestWork(h, v.x, 1) ELSE 1) + RestWork(h, a, i + 1)

RECURSIVE SuspendedWork(_, _, _)
SuspendedWork(h, s, i) ==
  IF i = 0 THEN 0
  ELSE 1 + RestWork(h, s[i].src, s[i].i + 1) + SuspendedWork(h, s, i - 1)

CloneWork ==
  IF pc # "run" THEN 0
  ELSE 1 + RestWork(heap, Top.src, Top.i) + SuspendedWork(heap, stack, Len(stack) - 1)

\* What clone is to return for arg.
CloneResultOk(r) ==
  IF IsRef(arg)
  THEN /\ IsRef(r)
       /\ DeepEq(heap, arg, r, {})
       /\ Reach(heap, r) \cap Reach(heap, arg) = {}
  ELSE r = arg

\* C3: clone of an acyclic value ends (every step lessens the work left and
\* the recursion never runs away) and returns a deep-equal value that has no
\* container instance in common with the argument; a scalar or null is
\* returned as it is.
C3_CloneAcyclic ==
  /\ [](~Cyclic(heap, arg) =>
          /\ pc # "overflow"
          /\ pc = "run" => ENABLED NextClone
          /\ pc = "done" => \A i \in 1..Len(results) : CloneResultOk(results[i]))
  /\ [][~Cyclic(heap, arg) /\ pc = "run" => CloneWork' < CloneWork]_vars

\* C3's case: clone has returned the copy of an acyclic input of NumOrig
\* containers, one of them held by two fields.
C3_Witness ==
  /\ pc = "done"
  /\ ~Cyclic(heap, arg)
  /\ Shared(heap, arg)
  /\ Cardinality(Reach(heap, arg)) = NumOrig

\* The copies made for container a.
Copies(a) == Cardinality({c \in DOMAIN srcOf : srcOf[c] = a})

\* The fields of the input that hold container a.
FieldsHolding(a) ==
  {p \in RefFields(heap, Reach(heap, arg)) : heap[p[1]].vals[p[2]] = Ref(a)}

\* The paths from the input's root to container a, on an acyclic heap.
RECURSIVE NPaths(_)
RECURSIVE SumPaths(_)
SumPaths(F) ==
  IF F = {} THEN 0
  ELSE LET p == CHOOSE x \in F : TRUE
       IN NPaths(p[1]) + SumPaths(F \ {p})

NPaths(a) == (IF a = arg.x THEN 1 ELSE 0) + SumPaths(FieldsHolding(a))

\* clone does not end on a cycle, and ends on an acyclic input.
CloneEndsIffAcyclic ==
  /\ [](Cyclic(heap, arg) =>
          /\ pc # "done"
          /\ pc = "run" => ENABLED NextClone
          /\ pc = "overflow" =>
               \E i, j \in 1..Len(stack) : i < j /\ stack[i].src = stack[j].src)
  /\ [](~Cyclic(heap, arg) => pc # "overflow" /\ (pc = "run" => ENABLED NextClone))
  /\ [][~Cyclic(heap, arg) /\ pc = "run" => CloneWork' < CloneWork]_vars

\* C10, as claimed: clone never completes on an input with a cycle, completes
\* on an acyclic one, and there makes k copies of a container that k fields
\* hold.
C10_AsClaimed ==
  /\ CloneEndsIffAcyclic
  /\ [](pc = "done" /\ IsRef(arg) /\ ~Cyclic(heap, arg) =>
          \A a \in Reach(heap, arg) :
            FieldsHolding(a) # {} => Copies(a) = Cardinality(FieldsHolding(a)))

\* C10, amended: clone never completes on an input with a cycle, completes on
\* an acyclic one, and there makes one copy of a container for each path from
\* the input to it: at least k for a container that k fields hold, and k when
\* each container with one of those fields is itself copied once.
C10_CloneNoRecord ==
  /\ CloneEndsIffAcyclic
  /\ [](pc = "done" /\ IsRef(arg) /\ ~Cyclic(heap, arg) =>
          \A a \in Reach(heap, arg) :
            /\ Copies(a) = NPaths(a)
            /\ Copies(a) >= Cardinality(FieldsHolding(a))
            /\ (a # arg.x /\ \A p \in FieldsHolding(a) : Copies(p[1]) = 1)
                 => Copies(a) = Cardinality(FieldsHolding(a)))

\* C10's case: clone has run away on an input with a cycle, the same
\* container entered again and again.
C10_Witness ==
  /\ pc = "overflow"
  /\ Cyclic(heap, arg)
  /\ Len(stack) = MaxDepth
  /\ \E i, j \in 1..Len(stack) : i < j /\ stack[i].src = stack[j].src

(* --------------------- properties of the accessors -------------------- *)

\* The last call, the heap it found and the segments of its path.
Last == calls[Len(calls)]
Segs == split(dataPath)

\* setByPath's walk as the specification has it meets a level that is no
\* container: data itself, or the value a level holds under its segment; a
\* missing level is made a mapping, and so is every level after it.
RECURSIVE MeetsNonContainer(_, _, _, _)
MeetsNonContainer(h, path, cur, i) ==
  IF ~IsRef(cur) THEN TRUE
  ELSE IF i = Len(path) THEN FALSE
  ELSE LET next == Index(h, cur, path[i])
       IN IF next = Undefined \/ next = Null THEN FALSE
          ELSE MeetsNonContainer(h, path, next, i + 1)

\* C4, as claimed: when the walk of setByPath meets a level that is a scalar
\* or null, setByPath returns false, throws nothing and leaves the heap as
\* it was; and the heap is as it was whenever false is returned.
C4_AsClaimed ==
  (calls # <<>> /\ Last.op = "setByPath") =>
    /\ MeetsNonContainer(Last.pre, Segs, arg, 1) =>
         ~Last.threw /\ Last.ret = False /\ heap = Last.pre
    /\ (~Last.threw /\ Last.ret = False) => heap = Last.pre

\* What is left of C4 in the code: the same for every data but null.
C4_UnlessNull ==
  (calls # <<>> /\ Last.op = "setByPath" /\ arg # Null) =>
    /\ MeetsNonContainer(Last.pre, Segs, arg, 1) =>
         ~Last.threw /\ Last.ret = False /\ heap = Last.pre
    /\ (~Last.threw /\ Last.ret = False) => heap = Last.pre

\* The containers setByPath walks through that exist before the call: data
\* and, level by level, the container the level before holds under its
\* segment.
RECURSIVE ExistingLevels(_, _, _, _)
ExistingLevels(h, path, a, i) ==
  IF i < Len(path) /\ IsRef(GetProp(h[a], path[i]))
  THEN <<a>> \o ExistingLevels(h, path, GetProp(h[a], path[i]).x, i + 1)
  ELSE <<a>>

\* The fields of container c.
Fields(c) == [k \in DOMAIN c.vals |-> c.vals[k]]

\* c is a mapping whose one field is k, holding v.
OnlyField(c, k, v) == c.kind = "Object" /\ DOMAIN c.vals = {k} /\ c.vals[k] = v

\* C5: on a mapping, when each level along the path is a container or
\* missing, setByPath returns true; the levels that exist stay the instances
\* they are; each missing level is a new mapping holding nothing but the
\* next level; the last level holds value under the last segment; and no
\* other field of the heap is changed.
C5_SetVivifies ==
  (calls # <<>> /\ Last.op = "setByPath" /\ IsRef(arg)
     /\ Last.pre[arg.x].kind = "Object") =>
    LET pre == Last.pre
        n == Len(Segs)
        E == ExistingLevels(pre, Segs, arg.x, 1)
        j == Len(E)
        made == DOMAIN heap \ DOMAIN pre
    IN (j = n \/ GetProp(pre[E[j]], Segs[j]) \in {Undefined, Null}) =>
         /\ ~Last.threw
         /\ Last.ret = True
         /\ DOMAIN pre \subseteq DOMAIN heap
         /\ Cardinality(made) = n - j
         /\ \A a \in DOMAIN pre :
              /\ heap[a].kind = pre[a].kind
              /\ a # E[j] => Fields(heap[a]) = Fields(pre[a])
         /\ DOMAIN heap[E[j]].vals = DOMAIN pre[E[j]].vals \cup {Segs[j]}
         /\ \A k \in DOMAIN pre[E[j]].vals :
              k # Segs[j] => heap[E[j]].vals[k] = pre[E[j]].vals[k]
         /\ \E c \in [j..n -> DOMAIN heap] :
              /\ c[j] = E[j]
              /\ \A i \in (j + 1)..n : c[i] \in made
              /\ \A i, m \in j..n : i # m => c[i] # c[m]
              /\ \A i \in j..(n - 1) : heap[c[i]].vals[Segs[i]] = Ref(c[i + 1])
              /\ \A i \in (j + 1)..(n - 1) : OnlyField(heap[c[i]], Segs[i], Ref(c[i + 1]))
              /\ j < n => OnlyField(heap[c[n]], Segs[n], Last.value)
              /\ heap[c[n]].vals[Segs[n]] = Last.value

\* C5's case: setByPath({}, "a.b", 5) has returned true and data is
\* {a: {b: 5}}.
C5_Witness ==
  /\ Len(calls) = 1
  /\ Last.op = "setByPath"
  /\ dataPath = <<"a", ".", "b">>
  /\ Last.value = Num(5)
  /\ Len(Last.pre) = 1
  /\ DOMAIN Last.pre[1].vals = {}
  /\ Last.ret = True
  /\ Len(heap) = 2
  /\ OnlyField(heap[1], "a", Ref(2))
  /\ OnlyField(heap[2], "b", Num(5))

\* getByPath's walk as the specification has it: a current value that is
\* null or undefined is returned at once, any other is indexed by the next
\* segment, and the value reached after the last segment is returned.
RECURSIVE GetWalk(_, _, _, _)
GetWalk(h, path, cur, i) ==
  IF cur = Null \/ cur = Undefined THEN cur
  ELSE IF i > Len(path) THEN cur
  ELSE GetWalk(h, path, Index(h, cur, path[i]), i + 1)

\* C6, as claimed: for every data, null and undefined too, getByPath throws
\* nothing, leaves the heap as it was and returns what the walk gives.
C6_AsClaimed ==
  (calls # <<>> /\ Last.op = "getByPath") =>
    /\ ~Last.threw
    /\ heap = Last.pre
    /\ Last.ret = GetWalk(Last.pre, Segs, arg, 1)

\* What is left of C6 in the code: the same for every data but null and
\* undefined.
C6_UnlessNullish ==
  (calls # <<>> /\ Last.op = "getByPath" /\ arg # Null /\ arg # Undefined) =>
    /\ ~Last.threw
    /\ heap = Last.pre
    /\ Last.ret = GetWalk(Last.pre, Segs, arg, 1)

\* The value deleteByPath's walk reaches before the last segment, when every
\* level before it exists.
RECURSIVE DeleteReach(_, _, _, _)
DeleteReach(h, path, cur, i) ==
  IF i = Len(path) THEN [ok |-> TRUE, at |-> cur]
  ELSE LET next == Index(h, cur, path[i])
       IN IF next = Undefined \/ next = Null THEN [ok |-> FALSE, at |-> cur]
          ELSE DeleteReach(h, path, next, i + 1)

\* The container reached owns the last segment.
Owns(h, path, data) ==
  LET r == DeleteReach(h, path, data, 1)
  IN r.ok /\ IsRef(r.at) /\ path[Len(path)] \in DOMAIN h[r.at.x].vals

Mergers == {"sum", "list"}

\* x || 0 for a number or undefined.
OrZero(v) == IF v.t = "number" THEN v.x ELSE 0

\* The i-th parameter of a call with the arguments args.
Param(args, i) == IF i <= Len(args) THEN args[i] ELSE Undefined

\* merger(...args): the value returned and the heap left.
ApplyMerger(merger, args, h) ==
  IF merger = "sum"
  THEN [val |-> Num(OrZero(Param(args, 1)) + OrZero(Param(args, 2))), heap |-> h]
  ELSE [val |-> Ref(Len(h) + 1), heap |-> Append(h, MkArray(args))]

\* keys.add(key) for each key of ks from the i-th on.
RECURSIVE AddKeys(_, _, _)
AddKeys(keys, ks, i) ==
  IF i > Len(ks) THEN keys
  ELSE AddKeys(IF \E j \in 1..Len(keys) : keys[j] = ks[i] THEN keys
               ELSE Append(keys, ks[i]),
               ks, i + 1)

RECURSIVE KeysFrom(_, _, _, _)
KeysFrom(h, objs, i, keys) ==
  IF i > Len(objs) THEN keys
  ELSE KeysFrom(h, objs, i + 1, AddKeys(keys, ObjectKeys(h[objs[i].x]), 1))

\* Mutant of MergeKeys: the keys of the first mapping only.
MergeKeysOfFirst(h, objs) ==
  IF objs = <<>> THEN <<>> ELSE ObjectKeys(h[objs[1].x])

\* The set of keys of all objs, in the order they were added.
MergeKeys(h, objs) == KeysFrom(h, objs, 1, <<>>)

\* args[i] = objs[i][key].
MergeArgs(h, objs, key) == [i \in 1..Len(objs) |-> GetProp(h[objs[i].x], key)]

\* The loop over the keys from the i-th on; log is the combiner's calls.
RECURSIVE MergeLoop(_, _, _, _, _, _, _)
MergeLoop(h, merger, objs, keys, i, result, log) ==
  IF i > Len(keys) THEN [heap |-> h, log |-> log]
  ELSE LET args == MergeArgs(h, objs, keys[i])
           r == ApplyMerger(merger, args, h)
       IN MergeLoop([r.heap EXCEPT ![result] = SetProp(@, keys[i], r.val)],
                    merger, objs, keys, i + 1, result,
                    Append(log, [key |-> keys[i], args |-> args]))

mergeObjects(h, merger, objs) ==
  LET keys == MergeKeys(h, objs)
      result == Len(h) + 1
      r == MergeLoop(Append(h, NewObject("Object")), merger, objs, keys, 1, result, <<>>)
  IN [threw |-> FALSE, ret |-> Ref(result), heap |-> r.heap, log |-> r.log]

MergeKeyNames == {"a", "b", "c"}

MergeVals == {Undefined} \cup {Num(n) : n \in 1..MaxNum}

MergeContainers ==
  {MkMapping(f) : f \in UNION {[K -> MergeVals] : K \in SUBSET MergeKeyNames}}

\* The inputs: a heap of mappings whose fields are numbers or undefined.
InitMerge ==
  /\ heap \in UNION {[1..n -> MergeContainers] : n \in 0..MaxObjs}
  /\ arg = Undefined
  /\ dataPath = <<>>
  /\ calls = <<>>
  /\ pc = "idle"
  /\ stack = <<>>
  /\ refs = <<>>
  /\ results = <<>>
  /\ srcOf = <<>>

\* One call of mergeObjects with a combiner and a list of the mappings.
MergeCall ==
  /\ calls = <<>>
  /\ \E merger \in Mergers :
       \E objs \in UNION {[1..n -> {Ref(a) : a \in DOMAIN heap}] : n \in 0..MaxObjs} :
         \E r \in {mergeObjects(heap, merger, objs)} :
           /\ heap' = r.heap
           /\ calls' = <<[op |-> "mergeObjects", merger |-> merger, objs |-> objs,
                          pre |-> heap, threw |-> r.threw, ret |-> r.ret,
                          log |-> r.log]>>
  /\ UNCHANGED <<arg, dataPath, pc, stack, refs, results, srcOf>>

NextMerge == MergeCall

SpecMerge == InitMerge /\ [][NextMerge]_vars

(* ----------------------- properties of mergeObjects ------------------- *)

\* The mapping objs[i] as it was before the call.
Input(i) == Last.pre[Last.objs[i].x]

\* The union of the keys of the input mappings.
KeyUnion == UNION {DOMAIN Input(i).vals : i \in 1..Len(Last.objs)}

\* One argument per input mapping, in input order: the mapping's value for
\* the key, or undefined.
ArgsFor(k) ==
  [i \in 1..Len(Last.objs) |->
     IF k \in DOMAIN Input(i).vals THEN Input(i).vals[k] ELSE Undefined]

\* v is what the combiner gives for args: the sum of the first two, each
\* taken for 0 when it is undefined, or a new sequence of the arguments.
Combined(v, args) ==
  IF Last.merger = "sum"
  THEN v = Num((IF Len(args) >= 1 /\ args[1] # Undefined THEN args[1].x ELSE 0)
               + (IF Len(args) >= 2 /\ args[2] # Undefined THEN args[2].x ELSE 0))
  ELSE /\ IsRef(v)
       /\ v.x \notin DOMAIN Last.pre
       /\ heap[v.x].kind = "Array"
       /\ heap[v.x].length = Len(args)
       /\ \A i \in 1..Len(args) : heap[v.x].vals[IndexKeys[i]] = args[i]

\* C8: mergeObjects returns a new mapping whose keys are the union of the
\* keys of the input mappings; the value of each key is the combiner applied
\* to one argument per input mapping, in input order, undefined where the
\* mapping lacks the key; the combiner is called once for each key; and the
\* input mappings are left as they were.
C8_MergeObjects ==
  (calls # <<>> /\ Last.op = "mergeObjects") =>
    /\ ~Last.threw
    /\ IsRef(Last.ret)
    /\ Last.ret.x \notin DOMAIN Last.pre
    /\ heap[Last.ret.x].kind = "Object"
    /\ DOMAIN heap[Last.ret.x].vals = KeyUnion
    /\ \A k \in KeyUnion : Combined(heap[Last.ret.x].vals[k], ArgsFor(k))
    /\ Len(Last.log) = Cardinality(KeyUnion)
    /\ \A k \in KeyUnion :
         \E i \in 1..Len(Last.log) :
           Last.log[i].key = k /\ Last.log[i].args = ArgsFor(k)
    /\ \A a \in DOMAIN Last.pre : heap[a] = Last.pre[a]

\* C8's case: mergeObjects((x, y) => (x || 0) + (y || 0), {a: 1, b: 2},
\* {b: 3, c: 4}) has returned {a: 1, b: 5, c: 4}.
C8_Witness ==
  /\ calls # <<>>
  /\ Last.op = "mergeObjects"
  /\ Last.merger = "sum"
  /\ Last.objs = <<Ref(1), Ref(2)>>
  /\ Fields(Last.pre[1]) = [k \in {"a", "b"} |-> IF k = "a" THEN Num(1) ELSE Num(2)]
  /\ Fields(Last.pre[2]) = [k \in {"b", "c"} |-> IF k = "b" THEN Num(3) ELSE Num(4)]
  /\ Fields(heap[Last.ret.x]) =
       [k \in {"a", "b", "c"} |-> IF k = "a" THEN Num(1) ELSE IF k = "b" THEN Num(5) ELSE Num(4)]

====
